---- MODULE Spec2Model ----
(***************************************************************************)
(* deno_winit: the WinitWindow class of src/mod.ts.                        *)
(*                                                                         *)
(* The model follows one WinitWindow object from its constructor through   *)
(* any number of spawn() calls.  Inside a spawn() the native event loop    *)
(* re-enters the three FFI callbacks (on_setup, on_draw, on_resize), each  *)
(* of which is one atomic action here because the native loop serialises   *)
(* them.  Every call that leaves the TypeScript code (a user function, the *)
(* GPU surface API) may return or throw; an error that is not caught       *)
(* leaves the callback.                                                    *)
(***************************************************************************)
EXTENDS Integers, Sequences, FiniteSets, TLC

\* ------------------------------------------------------------- bounds
MaxEvents == 3     \* callbacks delivered over the life of the object
MaxSpawns == 2     \* spawn() calls on the object
MaxSize == 2       \* distinct (width, height) pairs the native side reports
MaxHandles == 2    \* distinct native handle pairs
MaxLen == 2        \* code units in a string given to asCString

\* ---------------------------------------------------------- constants
\* null is the empty tuple and a present object x is <<x>>, so that a nullable
\* field is always a tuple; option values carry their JavaScript type.
NULL == <<>>
Some(x) == <<x>>
Get(o) == o[1]
NoSystem == "null"
UNDEF == <<"undefined">>
Num(n) == <<"number", n>>
Str(s) == <<"string", s>>
Fmt(f) == <<"format", f>>

DefaultWidth == 512
DefaultHeight == 512
DefaultFormat == "bgra8unorm"
\* "Deno + winit" as UTF-16 code units
DefaultTitle == <<68, 101, 110, 111, 32, 43, 32, 119, 105, 110, 105, 116>>

\* Deno.build.os values: the three the switch knows and one it does not.
OSes == {"linux", "windows", "darwin", "freebsd"}
Systems == {"win32", "cocoa", "wayland", "x11"}

\* Constructor options.  0 and the empty string are values a caller can pass.
OptWidths == {UNDEF, Num(0), Num(800)}
OptHeights == {UNDEF, Num(0), Num(600)}
OptFormats == {UNDEF, Fmt("rgba8unorm")}
OptTitles == {UNDEF}
OptIcons == {UNDEF}

\* What the native side reports: sizes and handle pairs.
Sizes == {<<2 * i - 1, 2 * i>> : i \in 1..MaxSize}
HandlePairs == {<< <<"window", i>>, <<"display", i>> >> : i \in 1..MaxHandles}

\* The first call of a callback that throws (at most one per callback run,
\* since nothing runs after it).
FailPoints == {"none", "setupFunction", "drawFunction", "resizeFunction",
               "new", "getContext", "configure", "present"}

\* a test that takes every given option, 0 and "" included
Truthy_AnyGiven(v) == v[1] # "undefined"

\* JavaScript truthiness of an option value: undefined, 0 and "" are falsy.
Truthy(v) ==
    \/ v[1] = "number" /\ v[2] # 0
    \/ v[1] = "string" /\ v[2] # <<>>
    \/ v[1] = "format" /\ v[2] # ""

VARIABLES
    phase,              \* where the object is in its life
    os, opts,           \* the constructor's inputs (kept for the claims)
    system, windowTitle, windowIconPath, width, height, presentationFormat,
    dylib,              \* state of this.dylibPromise
    device, surface, context, windowHandle, displayHandle,  \* spawn()'s locals
    nextSid,            \* identity of the next surface object
    spawnNo,            \* spawn() calls so far
    spawnResult,        \* how the current/last spawn() ended
    adapterSeen, deviceSeen,   \* what the two GPU requests of this spawn() gave
    nativeArgs,         \* arguments of this spawn()'s spawn_window call, or NULL
    nativeCalls,        \* spawn_window invocations so far
    lastCb,             \* the callback that ran last in this spawn(), with its arguments
    trace,              \* what that callback run did, in order
    setupCalls, resizeCalls, drawCalls,  \* callbacks delivered in this spawn()
    builds,             \* surface constructions started in this spawn()
    setupDone,          \* user setup functions that returned in this spawn()
    setupArgs,          \* arguments of the last on_setup of this spawn()
    lastResize,         \* arguments of the last on_resize on this object
    events,             \* callbacks delivered so far (bounded by MaxEvents)
    contract,           \* TRUE: the native loop keeps its documented call order
    strA, strB, bufA, bufB   \* asCString inputs and outputs

objVars == <<system, windowTitle, windowIconPath, width, height, presentationFormat>>
localVars == <<device, surface, context, windowHandle, displayHandle>>
strVars == <<strA, strB, bufA, bufB>>
ghostVars == <<setupCalls, resizeCalls, drawCalls, builds, setupDone, setupArgs>>
vars == <<phase, os, opts, objVars, dylib, localVars, nextSid, spawnNo, spawnResult,
          adapterSeen, deviceSeen, nativeArgs, nativeCalls, lastCb, trace, ghostVars,
          lastResize, events, contract, strVars>>

\* ------------------------------------------------------ asCString
\* Strings are sequences of UTF-16 code units, buffers sequences of bytes.
IsHigh(c) == c >= 55296 /\ c <= 56319
IsLow(c) == c >= 56320 /\ c <= 57343

\* UTF-8 bytes of one code point
Utf8(cp) ==
    IF cp < 128 THEN <<cp>>
    ELSE IF cp < 2048 THEN <<192 + (cp \div 64), 128 + (cp % 64)>>
    ELSE IF cp < 65536
         THEN <<224 + (cp \div 4096), 128 + ((cp \div 64) % 64), 128 + (cp % 64)>>
         ELSE <<240 + (cp \div 262144), 128 + ((cp \div 4096) % 64),
                128 + ((cp \div 64) % 64), 128 + (cp % 64)>>

\* TextEncoder.encode: a surrogate pair is one code point, a surrogate that is
\* not part of a pair is replaced by U+FFFD, then UTF-8.
RECURSIVE EncodeFrom(_, _)
EncodeFrom(str, i) ==
    IF i > Len(str) THEN <<>>
    ELSE IF IsHigh(str[i]) /\ i < Len(str) /\ IsLow(str[i + 1])
         THEN Utf8(65536 + (str[i] - 55296) * 1024 + (str[i + 1] - 56320))
              \o EncodeFrom(str, i + 2)
    ELSE IF IsHigh(str[i]) \/ IsLow(str[i])
         THEN Utf8(65533) \o EncodeFrom(str, i + 1)
    ELSE Utf8(str[i]) \o EncodeFrom(str, i + 1)

TextEncode(str) == EncodeFrom(str, 1)

asCString_NoTerminator(str) == TextEncode(str)

asCString(str) == TextEncode(str \o <<0>>)

\* ------------------------------------------------------ constructor
\* The switch on Deno.build.os; NoSystem stands for the default branch, which
\* throws "Unsupported OS.".
PlatformOf_Swapped(osName, forceX11) ==
    CASE osName = "linux" -> IF forceX11 THEN "wayland" ELSE "x11"
      [] osName = "windows" -> "win32"
      [] osName = "darwin" -> "cocoa"
      [] OTHER -> NoSystem

PlatformOf(osName, forceX11) ==
    CASE osName = "linux" -> IF forceX11 THEN "x11" ELSE "wayland"
      [] osName = "windows" -> "win32"
      [] osName = "darwin" -> "cocoa"
      [] OTHER -> NoSystem

\* an option that is never stored
OrDefault_Ignored(v, default) == default

\* "if (option) this.field = option": a falsy option leaves the default.
OrDefault(v, default) == IF Truthy(v) THEN v[2] ELSE default

\* The constructor, with its options drawn from the given sets.
ConstructFrom(osNames, forces, titles, icons, widths, heights, formats) ==
    /\ phase = "init"
    /\ \E o \in osNames, forceX11 \in forces, t \in titles, ic \in icons,
          w \in widths, h \in heights, f \in formats :
          /\ os' = o
          /\ opts' = [forceX11 |-> forceX11, windowTitle |-> t, windowIconPath |-> ic,
                      width |-> w, height |-> h, presentationFormat |-> f]
          /\ windowTitle' = OrDefault(t, DefaultTitle)
          /\ windowIconPath' = IF Truthy(ic) THEN Some(ic[2]) ELSE NULL
          /\ width' = OrDefault(w, DefaultWidth)
          /\ height' = OrDefault(h, DefaultHeight)
          /\ presentationFormat' = OrDefault(f, DefaultFormat)
          /\ system' = PlatformOf(o, forceX11)
          \* the default branch throws: no object comes out of the constructor
          /\ phase' = IF PlatformOf(o, forceX11) = NoSystem THEN "noWindow" ELSE "idle"
          /\ dylib' = IF PlatformOf(o, forceX11) = NoSystem THEN "none" ELSE "pending"
    /\ UNCHANGED <<localVars, nextSid, spawnNo, spawnResult, adapterSeen, deviceSeen,
                   nativeArgs, nativeCalls, lastCb, trace, ghostVars, lastResize,
                   events, contract, strVars>>

Construct ==
    ConstructFrom(OSes, BOOLEAN, OptTitles, OptIcons, OptWidths, OptHeights, OptFormats)

\* new WinitWindow({}) : no option given
ConstructDefault ==
    ConstructFrom(OSes, BOOLEAN, {UNDEF}, {UNDEF}, {UNDEF}, {UNDEF}, {UNDEF})

\* Titles and icon paths a caller can pass: omitted, "", and a non-empty one
\* ("T", "/i").
AllTitles == {UNDEF, Str(<<>>), Str(<<84>>)}
AllIcons == {UNDEF, Str(<<>>), Str(<<47, 105>>)}

\* the constructor on Windows, where forceX11 has no effect, with every title,
\* icon path, width and height
ConstructOptions ==
    ConstructFrom({"windows"}, {FALSE}, AllTitles, AllIcons, OptWidths, OptHeights,
                  {UNDEF})

\* ------------------------------------------------ the callbacks' code
\* A frame is the state a callback reads and writes: the object's fields, the
\* locals of spawn() it closes over, and the record of what it has done.
Frame ==
    [system |-> system, presentationFormat |-> presentationFormat,
     width |-> width, height |-> height,
     device |-> device, surface |-> surface, context |-> context,
     windowHandle |-> windowHandle, displayHandle |-> displayHandle,
     nextSid |-> nextSid, builds |-> builds, setupDone |-> setupDone,
     trace |-> <<>>, thrown |-> FALSE]

Did(F, what) == [F EXCEPT !.trace = Append(@, what)]
Log(F, msg) == Did(F, <<"log", msg>>)
Throw(F, at) == [Did(F, <<"throw", at>>) EXCEPT !.thrown = TRUE]

\* a rebuild that replaces the surface but keeps a context it already has
setupSurfaceAndContext_KeepContext(F, winHandle, dispHandle, w, h, fail) ==
    IF F.system = NoSystem THEN Log(F, "System not supported.")
    ELSE
      LET sid == F.nextSid
          F0 == [Did(F, <<"new", F.system, winHandle, dispHandle>>)
                    EXCEPT !.builds = @ + 1]
          F1 == [Did(F0, <<"getContext", sid>>)
                    EXCEPT !.surface = Some([id |-> sid, system |-> F.system,
                                             win |-> winHandle, disp |-> dispHandle]),
                           !.nextSid = @ + 1]
          cfg == [device |-> F.device, format |-> F.presentationFormat,
                  width |-> w, height |-> h]
          F2 == Did(F1, <<"configure", sid, cfg>>)
      IN  IF fail = "new" THEN Throw(F0, "new")
          ELSE IF fail = "getContext" THEN Throw(F1, "getContext")
          ELSE IF fail = "configure" THEN Throw(F2, "configure")
          ELSE IF F.context # NULL THEN F2
          ELSE [F2 EXCEPT !.context = Some([surface |-> sid, cfg |-> Some(cfg)])]

setupSurfaceAndContext(F, winHandle, dispHandle, w, h, fail) ==
    IF F.system = NoSystem THEN Log(F, "System not supported.")
    ELSE
      LET sid == F.nextSid
          F0 == [Did(F, <<"new", F.system, winHandle, dispHandle>>)
                    EXCEPT !.builds = @ + 1]
          F1 == [Did(F0, <<"getContext", sid>>)
                    EXCEPT !.surface = Some([id |-> sid, system |-> F.system,
                                             win |-> winHandle, disp |-> dispHandle]),
                           !.nextSid = @ + 1]
          cfg == [device |-> F.device, format |-> F.presentationFormat,
                  width |-> w, height |-> h]
          F2 == [Did(F1, <<"configure", sid, cfg>>)
                    EXCEPT !.context = Some([surface |-> sid, cfg |-> NULL])]
      IN  IF fail = "new" THEN Throw(F0, "new")
          ELSE IF fail = "getContext" THEN Throw(F1, "getContext")
          ELSE IF fail = "configure" THEN Throw(F2, "configure")
          ELSE [F2 EXCEPT !.context = Some([surface |-> sid, cfg |-> Some(cfg)])]

\* on_setup that stores the size it is given in the object
setupFunctionFfiCallback_StoresSize(F, winHandle, dispHandle, w, h, fail) ==
    LET F1 == [F EXCEPT !.windowHandle = winHandle, !.displayHandle = dispHandle,
                        !.width = w, !.height = h]
        F2 == setupSurfaceAndContext(F1, F1.windowHandle, F1.displayHandle, w, h, fail)
        F3 == Did(F2, <<"setupFunction", F2.device, F2.context>>)
    IN  IF F2.thrown THEN F2
        ELSE IF F2.context = NULL THEN Log(F2, "Context not initialized.")
        ELSE IF fail = "setupFunction" THEN Throw(F3, "setupFunction")
        ELSE [F3 EXCEPT !.setupDone = @ + 1]

\* on_setup that builds the context but never reaches the user setup function
setupFunctionFfiCallback_SkipUser(F, winHandle, dispHandle, w, h, fail) ==
    setupSurfaceAndContext([F EXCEPT !.windowHandle = winHandle,
                                     !.displayHandle = dispHandle],
                           winHandle, dispHandle, w, h, fail)

setupFunctionFfiCallback(F, winHandle, dispHandle, w, h, fail) ==
    LET F1 == [F EXCEPT !.windowHandle = winHandle, !.displayHandle = dispHandle]
        F2 == setupSurfaceAndContext(F1, F1.windowHandle, F1.displayHandle, w, h, fail)
        F3 == Did(F2, <<"setupFunction", F2.device, F2.context>>)
    IN  IF F2.thrown THEN F2
        ELSE IF F2.context = NULL THEN Log(F2, "Context not initialized.")
        ELSE IF fail = "setupFunction" THEN Throw(F3, "setupFunction")
        ELSE [F3 EXCEPT !.setupDone = @ + 1]

\* a draw callback without the two null checks
drawFunctionCallback_NoChecks(F, fail) ==
    LET F1 == Did(F, <<"drawFunction", F.device, F.context>>)
    IN  IF fail = "drawFunction" THEN Throw(F1, "drawFunction") ELSE F1

\* a draw callback that presents before it draws
drawFunctionCallback_PresentFirst(F, fail) ==
    LET F1 == Did(F, <<"present", Get(F.surface).id>>)
        F2 == Did(F1, <<"drawFunction", F.device, F.context>>)
    IN  IF F.surface = NULL THEN Log(F, "Surface not initialized.")
        ELSE IF F.context = NULL THEN Log(F, "Context not initialized.")
        ELSE IF fail = "present" THEN Throw(F1, "present")
        ELSE IF fail = "drawFunction" THEN Throw(F2, "drawFunction")
        ELSE F2

drawFunctionCallback(F, fail) ==
    LET F1 == Did(F, <<"drawFunction", F.device, F.context>>)
        F2 == Did(F1, <<"present", Get(F.surface).id>>)
    IN  IF F.surface = NULL THEN Log(F, "Surface not initialized.")
        ELSE IF F.context = NULL THEN Log(F, "Context not initialized.")
        ELSE IF fail = "drawFunction" THEN Throw(F1, "drawFunction")
        ELSE IF fail = "present" THEN Throw(F2, "present")
        ELSE F2

\* on_resize whose synthetic draw runs before the rebuild
resizeFunctionFfiCallback_DrawBeforeRebuild(F, w, h, fail) ==
    LET F1 == [Did(F, <<"setSize", w, h>>) EXCEPT !.width = w, !.height = h]
        F2 == Did(F1, <<"resizeFunction", w, h>>)
        F3 == drawFunctionCallback(F2, fail)
    IN  IF fail = "resizeFunction" THEN Throw(F2, "resizeFunction")
        ELSE IF F2.system = "cocoa"
             THEN IF F3.thrown THEN F3
                  ELSE setupSurfaceAndContext(F3, F3.windowHandle, F3.displayHandle,
                                              w, h, fail)
        ELSE F2

\* on_resize that rebuilds on every platform
resizeFunctionFfiCallback_AlwaysRebuild(F, w, h, fail) ==
    LET F1 == [Did(F, <<"setSize", w, h>>) EXCEPT !.width = w, !.height = h]
        F2 == Did(F1, <<"resizeFunction", w, h>>)
        F3 == setupSurfaceAndContext(F2, F2.windowHandle, F2.displayHandle, w, h, fail)
    IN  IF fail = "resizeFunction" THEN Throw(F2, "resizeFunction")
        ELSE IF F3.thrown THEN F3 ELSE drawFunctionCallback(F3, fail)

\* on_resize that does not store the new size in the object
resizeFunctionFfiCallback_NoStore(F, w, h, fail) ==
    LET F2 == Did(F, <<"resizeFunction", w, h>>)
        F3 == setupSurfaceAndContext(F2, F2.windowHandle, F2.displayHandle, w, h, fail)
    IN  IF fail = "resizeFunction" THEN Throw(F2, "resizeFunction")
        ELSE IF F2.system = "cocoa"
             THEN IF F3.thrown THEN F3 ELSE drawFunctionCallback(F3, fail)
        ELSE F2

resizeFunctionFfiCallback(F, w, h, fail) ==
    LET F1 == [Did(F, <<"setSize", w, h>>) EXCEPT !.width = w, !.height = h]
        F2 == Did(F1, <<"resizeFunction", w, h>>)
        F3 == setupSurfaceAndContext(F2, F2.windowHandle, F2.displayHandle, w, h, fail)
    IN  IF fail = "resizeFunction" THEN Throw(F2, "resizeFunction")
        ELSE IF F2.system = "cocoa"
             THEN IF F3.thrown THEN F3 ELSE drawFunctionCallback(F3, fail)
        ELSE F2

\* ------------------------------------------------------------ spawn()
\* spawn() up to its first await: the two guards, then requestAdapter().
SpawnBegin ==
    /\ phase = "idle"
    /\ spawnNo < MaxSpawns
    /\ spawnNo' = spawnNo + 1
    /\ IF dylib = "none" THEN /\ spawnResult' = "Dynamic library not loaded."
                              /\ phase' = "idle"
       ELSE IF system = NoSystem THEN /\ spawnResult' = "System not supported."
                                      /\ phase' = "idle"
       ELSE /\ spawnResult' = "pending"
            /\ phase' = "adapter"
    /\ adapterSeen' = "none"
    /\ deviceSeen' = "none"
    /\ nativeArgs' = NULL
    \* the closure of the previous spawn() is out of reach from here on
    /\ device' = NULL /\ surface' = NULL /\ context' = NULL
    /\ windowHandle' = NULL /\ displayHandle' = NULL
    /\ lastCb' = <<"none">> /\ trace' = <<>>
    /\ setupCalls' = 0 /\ resizeCalls' = 0 /\ drawCalls' = 0
    /\ builds' = 0 /\ setupDone' = 0 /\ setupArgs' = NULL
    /\ UNCHANGED <<os, opts, objVars, dylib, nextSid, nativeCalls, lastResize,
                   events, contract, strVars>>

\* requestAdapter() settles: an adapter, null, or a rejection.
SpawnAdapter_NoCheck ==
    /\ phase = "adapter"
    /\ \E a \in {"adapter", "null", "rejects"} :
          /\ adapterSeen' = a
          /\ IF a = "rejects" THEN /\ spawnResult' = "requestAdapter rejected"
                                   /\ phase' = "idle"
             ELSE /\ phase' = "device"
                  /\ UNCHANGED spawnResult
    /\ UNCHANGED <<os, opts, objVars, dylib, localVars, nextSid, spawnNo, deviceSeen,
                   nativeArgs, nativeCalls, lastCb, trace, ghostVars, lastResize,
                   events, contract, strVars>>

SpawnAdapter ==
    /\ phase = "adapter"
    /\ \E a \in {"adapter", "null", "rejects"} :
          /\ adapterSeen' = a
          /\ IF a = "rejects" THEN /\ spawnResult' = "requestAdapter rejected"
                                   /\ phase' = "idle"
             ELSE IF a = "null" THEN /\ spawnResult' = "No GPU adapter found."
                                     /\ phase' = "idle"
             ELSE /\ phase' = "device"
                  /\ UNCHANGED spawnResult
    /\ UNCHANGED <<os, opts, objVars, dylib, localVars, nextSid, spawnNo, deviceSeen,
                   nativeArgs, nativeCalls, lastCb, trace, ghostVars, lastResize,
                   events, contract, strVars>>

\* spawn() going on to the native call without a device
SpawnDevice_NoCheck ==
    /\ phase = "device"
    /\ \E d \in {"device", "null", "rejects"} :
          /\ deviceSeen' = d
          /\ IF d = "rejects" THEN /\ spawnResult' = "requestDevice rejected"
                                   /\ phase' = "idle"
                                   /\ UNCHANGED device
             ELSE /\ phase' = "dylib"
                  /\ device' = IF d = "null" THEN NULL ELSE Some(spawnNo)
                  /\ UNCHANGED spawnResult
    /\ surface' = NULL /\ context' = NULL
    /\ windowHandle' = NULL /\ displayHandle' = NULL
    /\ UNCHANGED <<os, opts, objVars, dylib, nextSid, spawnNo, adapterSeen,
                   nativeArgs, nativeCalls, lastCb, trace, ghostVars, lastResize,
                   events, contract, strVars>>

\* requestDevice() settles; on success the locals are declared (all null) and
\* the three callbacks are created.  The device of spawn() number n is n.
SpawnDevice ==
    /\ phase = "device"
    /\ \E d \in {"device", "null", "rejects"} :
          /\ deviceSeen' = d
          /\ IF d = "rejects" THEN /\ spawnResult' = "requestDevice rejected"
                                   /\ phase' = "idle"
                                   /\ UNCHANGED device
             ELSE IF d = "null" THEN /\ spawnResult' = "No GPU device found."
                                     /\ phase' = "idle"
                                     /\ UNCHANGED device
             ELSE /\ phase' = "dylib"
                  /\ device' = Some(spawnNo)
                  /\ UNCHANGED spawnResult
    /\ surface' = NULL /\ context' = NULL
    /\ windowHandle' = NULL /\ displayHandle' = NULL
    /\ UNCHANGED <<os, opts, objVars, dylib, nextSid, spawnNo, adapterSeen,
                   nativeArgs, nativeCalls, lastCb, trace, ghostVars, lastResize,
                   events, contract, strVars>>

\* The arguments spawn() gives to spawn_window.
SpawnWindowArgs ==
    [title |-> asCString(windowTitle),
     icon |-> IF windowIconPath # NULL /\ Get(windowIconPath) # <<>>
              THEN Some(asCString(Get(windowIconPath))) ELSE NULL,
     width |-> width, height |-> height]

\* "await this.dylibPromise", then the call of spawn_window, which blocks.
SpawnNative ==
    /\ phase = "dylib"
    /\ \E loaded \in (IF dylib = "pending" THEN {"loaded", "failed"} ELSE {dylib}) :
          /\ dylib' = loaded
          /\ IF loaded = "failed"
             THEN /\ spawnResult' = "dlopen rejected"
                  /\ phase' = "idle"
                  /\ UNCHANGED <<nativeArgs, nativeCalls>>
             ELSE /\ nativeArgs' = Some(SpawnWindowArgs)
                  /\ nativeCalls' = nativeCalls + 1
                  /\ phase' = "running"
                  /\ UNCHANGED spawnResult
    /\ UNCHANGED <<os, opts, objVars, localVars, nextSid, spawnNo, adapterSeen,
                   deviceSeen, lastCb, trace, ghostVars, lastResize, events, contract,
                   strVars>>

\* ------------------------------------------------- the native event loop
\* Which callback the native loop may deliver now.  Under its documented order
\* on_setup comes exactly once and before any on_draw or on_resize; without it
\* the three entry points are called in any order.
NativeMayCall(cb) ==
    /\ phase = "running"
    /\ events < MaxEvents
    /\ contract => IF cb = "on_setup" THEN setupCalls = 0 ELSE setupCalls = 1

\* An error that leaves a callback crosses into the native loop and ends the
\* process.
AfterCallback(F) == IF F.thrown THEN "crashed" ELSE "running"

\* Writes a callback's final frame back to the state.
Commit(F) ==
    /\ width' = F.width /\ height' = F.height
    /\ surface' = F.surface /\ context' = F.context
    /\ windowHandle' = F.windowHandle /\ displayHandle' = F.displayHandle
    /\ nextSid' = F.nextSid /\ builds' = F.builds /\ setupDone' = F.setupDone
    /\ trace' = F.trace
    /\ phase' = AfterCallback(F)
    /\ events' = events + 1
    /\ UNCHANGED <<os, opts, system, windowTitle, windowIconPath, presentationFormat,
                   dylib, device, spawnNo, spawnResult, adapterSeen, deviceSeen,
                   nativeArgs, nativeCalls, contract, strVars>>

OnSetup ==
    /\ NativeMayCall("on_setup")
    /\ \E hp \in HandlePairs, sz \in Sizes, fail \in FailPoints :
          /\ Commit(setupFunctionFfiCallback(Frame, hp[1], hp[2], sz[1], sz[2], fail))
          /\ lastCb' = <<"on_setup", hp[1], hp[2], sz[1], sz[2]>>
          /\ setupArgs' = <<hp[1], hp[2], sz[1], sz[2]>>
    /\ setupCalls' = setupCalls + 1
    /\ UNCHANGED <<resizeCalls, drawCalls, lastResize>>

OnDraw ==
    /\ NativeMayCall("on_draw")
    /\ \E fail \in FailPoints : Commit(drawFunctionCallback(Frame, fail))
    /\ lastCb' = <<"on_draw">>
    /\ drawCalls' = drawCalls + 1
    /\ UNCHANGED <<setupCalls, resizeCalls, setupArgs, lastResize>>

OnResize ==
    /\ NativeMayCall("on_resize")
    /\ \E sz \in Sizes, fail \in FailPoints :
          /\ Commit(resizeFunctionFfiCallback(Frame, sz[1], sz[2], fail))
          /\ lastCb' = <<"on_resize", sz[1], sz[2]>>
          /\ lastResize' = <<sz[1], sz[2]>>
    /\ resizeCalls' = resizeCalls + 1
    /\ UNCHANGED <<setupCalls, drawCalls, setupArgs>>

\* The window closes: spawn_window returns and spawn() resolves.
NativeReturn ==
    /\ phase = "running"
    /\ phase' = "idle"
    /\ spawnResult' = "resolved"
    /\ UNCHANGED <<os, opts, objVars, dylib, localVars, nextSid, spawnNo, adapterSeen,
                   deviceSeen, nativeArgs, nativeCalls, lastCb, trace, ghostVars,
                   lastResize, events, contract, strVars>>

\* ------------------------------------------------------ specification
InitObject ==
    /\ phase = "init"
    /\ os = "none"
    /\ opts = [forceX11 |-> FALSE, windowTitle |-> UNDEF, windowIconPath |-> UNDEF,
               width |-> UNDEF, height |-> UNDEF, presentationFormat |-> UNDEF]
    /\ system = NoSystem
    /\ windowTitle = DefaultTitle
    /\ windowIconPath = NULL
    /\ width = DefaultWidth
    /\ height = DefaultHeight
    /\ presentationFormat = DefaultFormat
    /\ dylib = "none"
    /\ device = NULL /\ surface = NULL /\ context = NULL
    /\ windowHandle = NULL /\ displayHandle = NULL
    /\ nextSid = 1
    /\ spawnNo = 0
    /\ spawnResult = "none"
    /\ adapterSeen = "none" /\ deviceSeen = "none"
    /\ nativeArgs = NULL
    /\ nativeCalls = 0
    /\ lastCb = <<"none">>
    /\ trace = <<>>
    /\ setupCalls = 0 /\ resizeCalls = 0 /\ drawCalls = 0
    /\ builds = 0 /\ setupDone = 0 /\ setupArgs = NULL
    /\ lastResize = NULL
    /\ events = 0

NoStrings == strA = <<>> /\ strB = <<>> /\ bufA = <<>> /\ bufB = <<>>

Init == InitObject /\ contract = TRUE /\ NoStrings

Next ==
    \/ Construct
    \/ SpawnBegin
    \/ SpawnAdapter
    \/ SpawnDevice
    \/ SpawnNative
    \/ OnSetup
    \/ OnDraw
    \/ OnResize
    \/ NativeReturn

Spec == Init /\ [][Next]_vars

\* The same object with the three entry points called in any order.
InitAnyOrder == InitObject /\ contract = FALSE /\ NoStrings

NextAnyOrder ==
    \/ ConstructDefault
    \/ SpawnBegin
    \/ SpawnAdapter
    \/ SpawnDevice
    \/ SpawnNative
    \/ OnSetup
    \/ OnDraw
    \/ OnResize
    \/ NativeReturn

SpecAnyOrder == InitAnyOrder /\ [][NextAnyOrder]_vars

\* The object constructed with every combination of title, icon path, width
\* and height, under the documented call order.
NextOptions ==
    \/ ConstructOptions
    \/ SpawnBegin
    \/ SpawnAdapter
    \/ SpawnDevice
    \/ SpawnNative
    \/ OnSetup
    \/ OnDraw
    \/ OnResize
    \/ NativeReturn

SpecOptions == Init /\ [][NextOptions]_vars

\* ------------------------------------- specification of asCString alone
\* Code units a caller's string may hold: NUL, "A", U+00E9, U+20AC, a high
\* surrogate (0xD83D) and a low surrogate (0xDE00).
CodeUnits == {0, 65, 233, 8364, 55357, 56832}

RECURSIVE StringsOfLen(_)
StringsOfLen(n) ==
    IF n = 0 THEN {<<>>}
    ELSE {Append(str, c) : str \in StringsOfLen(n - 1), c \in CodeUnits}

Strings == UNION {StringsOfLen(n) : n \in 0..MaxLen}

InitStr ==
    /\ InitObject
    /\ contract = TRUE
    /\ strA \in Strings
    /\ strB \in Strings
    /\ bufA = <<>>
    /\ bufB = <<>>

EncodeStrings ==
    /\ bufA = <<>>
    /\ bufA' = asCString(strA)
    /\ bufB' = asCString(strB)
    /\ UNCHANGED <<phase, os, opts, objVars, dylib, localVars, nextSid, spawnNo,
                   spawnResult, adapterSeen, deviceSeen, nativeArgs, nativeCalls,
                   lastCb, trace, ghostVars, lastResize, events, contract, strA, strB>>

NextStr == EncodeStrings

SpecStr == InitStr /\ [][NextStr]_vars

\* ============================================================== claims
Count(tr, op) == Cardinality({i \in DOMAIN tr : tr[i][1] = op})
Has(tr, op) == \E i \in DOMAIN tr : tr[i][1] = op
Entries(tr, op) == {tr[i] : i \in {j \in DOMAIN tr : tr[j][1] = op}}
NonCocoa == {"win32", "wayland", "x11"}
CtorWidth == IF opts.width \in {UNDEF, Num(0)} THEN DefaultWidth ELSE opts.width[2]
CtorHeight == IF opts.height \in {UNDEF, Num(0)} THEN DefaultHeight ELSE opts.height[2]
CtorFormat ==
    IF opts.presentationFormat = UNDEF THEN DefaultFormat ELSE opts.presentationFormat[2]
CtorTitle ==
    IF opts.windowTitle \in {UNDEF, Str(<<>>)} THEN DefaultTitle ELSE opts.windowTitle[2]
CtorIcon ==
    IF opts.windowIconPath \in {UNDEF, Str(<<>>)} THEN NULL
    ELSE Some(opts.windowIconPath[2])

\* C1: the user draw function is never invoked (by on_draw or by the
\* synthetic draw of on_resize) unless the user setup function has returned
\* at least once in this spawn().
C1_DrawOnlyAfterSetup == Has(trace, "drawFunction") => setupDone >= 1

C1_Witness ==
    /\ lastCb[1] = "on_resize"
    /\ Has(trace, "drawFunction")
    /\ setupDone >= 1

\* C2 (as stated): on cocoa every on_resize makes exactly one rebuild (the
\* surface built and its context configured) and exactly one synthetic draw;
\* on the other platforms on_resize builds nothing and draws nothing.
C2_Claim ==
    lastCb[1] = "on_resize" =>
        IF system = "cocoa"
        THEN /\ Count(trace, "configure") = 1
             /\ Count(trace, "drawFunction") = 1
        ELSE /\ ~Has(trace, "new")
             /\ ~Has(trace, "drawFunction")

\* The same with the runs left out in which a call made by on_resize throws.
ResizeEffectsWhenNothingThrows == Has(trace, "throw") \/ C2_Claim

\* C3: on win32, wayland and x11, after on_setup, each on_resize hands exactly
\* its (w, h) to the user resize function and builds nothing, one surface
\* construction has happened in all, and each on_draw passes to the user draw
\* function the context built at setup, configured with the setup dimensions.
C3_NonCocoaResizeKeepsContext ==
    (system \in NonCocoa /\ setupCalls = 1) =>
        /\ builds = 1
        /\ lastCb[1] = "on_resize" =>
              /\ Entries(trace, "resizeFunction") = {<<"resizeFunction", lastCb[2], lastCb[3]>>}
              /\ Count(trace, "resizeFunction") = 1
              /\ ~Has(trace, "new")
              /\ ~Has(trace, "drawFunction")
        /\ lastCb[1] = "on_draw" =>
              /\ Count(trace, "drawFunction") = 1
              /\ \A e \in Entries(trace, "drawFunction") :
                    /\ e[3] = context
                    /\ Get(e[3]).surface = Get(surface).id
                    /\ Get(surface).win = setupArgs[1]
                    /\ Get(surface).disp = setupArgs[2]
                    /\ Get(e[3]).cfg = Some([device |-> device,
                                             format |-> presentationFormat,
                                             width |-> setupArgs[3],
                                             height |-> setupArgs[4]])

C3_Witness ==
    /\ system \in NonCocoa
    /\ setupCalls = 1
    /\ resizeCalls >= 1
    /\ lastCb[1] = "on_draw"
    /\ Has(trace, "drawFunction")
    /\ Get(Get(context).cfg).width # width

\* C4 (as stated): on cocoa, on_setup followed by n on_resize calls makes
\* 1 + n surface constructions, and the one made by an on_resize uses the
\* handles on_setup delivered, the same device and format, and that resize's
\* width and height.
C4_Claim ==
    (system = "cocoa" /\ setupCalls = 1) =>
        /\ builds = 1 + resizeCalls
        /\ lastCb[1] = "on_resize" =>
              /\ \A e \in Entries(trace, "new") :
                    e[3] = setupArgs[1] /\ e[4] = setupArgs[2]
              /\ \A e \in Entries(trace, "configure") :
                    e[3] = [device |-> device, format |-> presentationFormat,
                            width |-> lastCb[2], height |-> lastCb[3]]

\* The same with the runs left out in which a call made by a callback throws.
CocoaBuildsWhenNothingThrows == phase = "crashed" \/ C4_Claim

\* C5: a spawn() whose adapter request gives no adapter, or whose device
\* request gives no device, or that finds no platform tag, ends with that
\* error without calling spawn_window, so no callback runs in it.
C5_PreconditionsFailFast ==
    /\ adapterSeen = "null" => spawnResult = "No GPU adapter found."
    /\ deviceSeen = "null" => spawnResult = "No GPU device found."
    /\ (spawnNo > 0 /\ system = NoSystem) => spawnResult = "System not supported."
    /\ spawnResult \in {"No GPU adapter found.", "No GPU device found.",
                         "System not supported."} =>
          /\ nativeArgs = NULL
          /\ lastCb = <<"none">>
          /\ phase = "idle"

C5_Witness ==
    /\ spawnNo = 2
    /\ nativeCalls = 1
    /\ deviceSeen = "null"
    /\ spawnResult = "No GPU device found."
    /\ nativeArgs = NULL

\* C6 (as stated): no error leaves a callback: whatever fails inside on_setup,
\* on_draw or on_resize, the callback returns normally.
C6_Claim == phase # "crashed" /\ ~Has(trace, "throw")

\* C7: linux gives wayland, or x11 when forced; windows gives win32 and darwin
\* gives cocoa whatever the flag; any other OS leaves no object, so spawn() and
\* the native call are never reached.
C7_PlatformResolution ==
    phase # "init" =>
        /\ os = "linux" => system = (IF opts.forceX11 THEN "x11" ELSE "wayland")
        /\ os = "windows" => system = "win32"
        /\ os = "darwin" => system = "cocoa"
        /\ os \in {"linux", "windows", "darwin"} => phase # "noWindow"
        /\ os \notin {"linux", "windows", "darwin"} =>
              phase = "noWindow" /\ spawnNo = 0 /\ nativeCalls = 0

C7_Witness ==
    /\ os = "linux"
    /\ opts.forceX11
    /\ system = "x11"
    /\ phase = "running"

\* C8 (as stated): after construction no callback changes title, icon path,
\* width, height or format, and every spawn() passes the constructed width and
\* height to spawn_window.
C8_Claim ==
    phase # "init" =>
        /\ windowTitle = CtorTitle
        /\ presentationFormat = CtorFormat
        /\ windowIconPath = CtorIcon
        /\ width = CtorWidth
        /\ height = CtorHeight
        /\ nativeArgs # NULL =>
              Get(nativeArgs).width = CtorWidth /\ Get(nativeArgs).height = CtorHeight

\* C8 (amended): title, icon path and format never change; width and height
\* are the constructed ones until an on_resize runs and the arguments of the
\* last on_resize from then on, and a spawn() passes whichever it finds.
C8_ConfigChangesOnlyByResize ==
    phase # "init" =>
        /\ windowTitle = CtorTitle
        /\ presentationFormat = CtorFormat
        /\ windowIconPath = CtorIcon
        /\ <<width, height>> =
              (IF lastResize = NULL THEN <<CtorWidth, CtorHeight>> ELSE lastResize)
        /\ (nativeArgs # NULL /\ resizeCalls = 0) =>
              <<Get(nativeArgs).width, Get(nativeArgs).height>> = <<width, height>>

C8_Witness ==
    /\ spawnNo = 2
    /\ nativeArgs # NULL
    /\ resizeCalls = 0
    /\ lastResize # NULL
    /\ Get(nativeArgs).width = lastResize[1]
    /\ Get(nativeArgs).width # CtorWidth

\* C9 (as stated): without overrides spawn() passes 512 and 512 and the
\* context is configured with "bgra8unorm"; an overriding width, height or
\* format is passed as given.
C9_Claim ==
    /\ nativeArgs # NULL =>
          /\ Get(nativeArgs).width =
                (IF opts.width = UNDEF THEN DefaultWidth ELSE opts.width[2])
          /\ Get(nativeArgs).height =
                (IF opts.height = UNDEF THEN DefaultHeight ELSE opts.height[2])
    /\ \A e \in Entries(trace, "configure") : e[3].format = CtorFormat

\* C9 (amended): the same for a spawn() that no on_resize precedes, with a
\* width or height of 0 counted as no override.
C9_DefaultsAndOverrides ==
    /\ (nativeArgs # NULL /\ lastResize = NULL) =>
          /\ Get(nativeArgs).width =
                (IF opts.width \in {UNDEF, Num(0)} THEN 512 ELSE opts.width[2])
          /\ Get(nativeArgs).height =
                (IF opts.height \in {UNDEF, Num(0)} THEN 512 ELSE opts.height[2])
    /\ \A e \in Entries(trace, "configure") :
          e[3].format = (IF opts.presentationFormat = UNDEF THEN "bgra8unorm"
                         ELSE opts.presentationFormat[2])

C9_Witness ==
    /\ nativeArgs # NULL
    /\ lastResize = NULL
    /\ opts.width = Num(800) /\ Get(nativeArgs).width = 800
    /\ opts.height = UNDEF /\ Get(nativeArgs).height = 512
    /\ opts.presentationFormat = Fmt("rgba8unorm")
    /\ \E e \in Entries(trace, "configure") : e[3].format = "rgba8unorm"

\* UTF-8 decoding of a well-formed byte sequence into UTF-16 code units
RECURSIVE DecodeFrom(_, _)
DecodeFrom(b, i) ==
    IF i > Len(b) THEN <<>>
    ELSE IF b[i] < 128 THEN <<b[i]>> \o DecodeFrom(b, i + 1)
    ELSE IF b[i] < 224
         THEN <<(b[i] - 192) * 64 + (b[i + 1] - 128)>> \o DecodeFrom(b, i + 2)
    ELSE IF b[i] < 240
         THEN <<(b[i] - 224) * 4096 + (b[i + 1] - 128) * 64 + (b[i + 2] - 128)>>
              \o DecodeFrom(b, i + 3)
    ELSE LET cp == (b[i] - 240) * 262144 + (b[i + 1] - 128) * 4096
                   + (b[i + 2] - 128) * 64 + (b[i + 3] - 128) - 65536
         IN  <<55296 + (cp \div 1024), 56320 + (cp % 1024)>> \o DecodeFrom(b, i + 4)

TextDecode(b) == DecodeFrom(b, 1)
NoZero(str) == \A i \in DOMAIN str : str[i] # 0
\* no surrogate outside a high-low pair
WellFormed(str) ==
    \A i \in DOMAIN str :
        /\ IsHigh(str[i]) => (i < Len(str) /\ IsLow(str[i + 1]))
        /\ IsLow(str[i]) => (i > 1 /\ IsHigh(str[i - 1]))
RoundTrips(str, buf) ==
    /\ buf = TextEncode(str) \o <<0>>
    /\ TextDecode(SubSeq(buf, 1, Len(buf) - 1)) = str

\* C10 (as stated): for every string without a zero character the buffer is
\* the string's encoding plus one zero byte, decoding it without the last byte
\* gives the string back, and two different strings give different buffers.
C10_Claim ==
    bufA # <<>> =>
        /\ NoZero(strA) => RoundTrips(strA, bufA)
        /\ (NoZero(strA) /\ NoZero(strB) /\ strA # strB) => bufA # bufB

\* C10 (amended): the same for the strings that hold no unpaired surrogate.
C10_RoundTripOfWellFormed ==
    bufA # <<>> =>
        /\ (NoZero(strA) /\ WellFormed(strA)) => RoundTrips(strA, bufA)
        /\ (NoZero(strA) /\ NoZero(strB) /\ WellFormed(strA) /\ WellFormed(strB)
               /\ strA # strB) => bufA # bufB

C10_Witness ==
    /\ strA = <<55357, 56832>>
    /\ strB = <<8364, 233>>
    /\ Len(bufA) = 5
    /\ bufA # bufB

\* C11: an on_draw that arrives while no surface or context exists yet is a
\* no-op: the user draw function is not invoked, nothing is presented, no
\* error leaves the callback, and the surface, the context, the stored handles
\* and the current dimensions are left as they were.
C11_DrawWithoutContextIsNoOp ==
    [][(drawCalls' = drawCalls + 1 /\ (surface = NULL \/ context = NULL))
         => /\ UNCHANGED <<surface, context, windowHandle, displayHandle,
                           width, height>>
            /\ ~Has(trace', "drawFunction")
            /\ ~Has(trace', "present")
            /\ ~Has(trace', "throw")
            /\ phase' = "running"]_vars

C11_Witness ==
    /\ lastCb = <<"on_draw">>
    /\ setupCalls = 0
    /\ surface = NULL /\ context = NULL
    /\ trace = << <<"log", "Surface not initialized.">> >>
    /\ phase = "running"

\* The last callback was an on_setup whose build did not produce a configured
\* context.
SetupBuildFailed ==
    /\ lastCb[1] = "on_setup"
    /\ (context = NULL \/ Get(context).cfg = NULL)

\* C12: when the construction of the surface and context fails during
\* on_setup, the user setup function is not invoked in that call and the
\* callback returns without an error reaching the native loop.
C12_Claim ==
    SetupBuildFailed =>
        /\ ~Has(trace, "setupFunction")
        /\ ~Has(trace, "throw")
        /\ phase # "crashed"

\* C13: once on_setup has built the context, each on_draw invokes the user
\* draw function exactly once, first, with the device and the most recently
\* built context; when the draw function has returned, present is requested
\* exactly once, on the surface that context was obtained from; when it has
\* not returned, present is not requested at all.
C13_DrawThenPresent ==
    lastCb = <<"on_draw">> =>
        /\ surface # NULL /\ context # NULL
        /\ Get(context).surface = nextSid - 1
        /\ Get(context).surface = Get(surface).id
        /\ Count(trace, "drawFunction") = 1
        /\ trace[1] = <<"drawFunction", device, context>>
        /\ IF Len(trace) >= 2 /\ trace[2] = <<"throw", "drawFunction">>
           THEN Count(trace, "present") = 0
           ELSE /\ Len(trace) >= 2
                /\ trace[2] = <<"present", Get(context).surface>>
                /\ Count(trace, "present") = 1

C13_Witness ==
    /\ lastCb = <<"on_draw">>
    /\ system = "cocoa"
    /\ builds >= 2
    /\ Get(surface).id >= 2
    /\ trace = << <<"drawFunction", device, context>>,
                  <<"present", Get(surface).id>> >>

\* The steps of an on_resize(w, h) in which no call throws, in their order:
\* the store of the size, the user resize function, and on cocoa the three
\* steps of the rebuild and the draw with its present.
ResizeSteps(w, h) ==
    LET sid == nextSid - 1
        cfg == [device |-> device, format |-> presentationFormat,
                width |-> w, height |-> h]
        built == Some([surface |-> sid, cfg |-> Some(cfg)])
    IN  << <<"setSize", w, h>>, <<"resizeFunction", w, h>> >>
        \o (IF system = "cocoa"
            THEN << <<"new", system, windowHandle, displayHandle>>,
                    <<"getContext", sid>>,
                    <<"configure", sid, cfg>>,
                    <<"drawFunction", device, built>>,
                    <<"present", sid>> >>
            ELSE <<>>)

\* the trace is a prefix of the steps, possibly ended by a throw
IsPrefixOrThrow(tr, steps) ==
    LET n == IF Has(tr, "throw") THEN Len(tr) - 1 ELSE Len(tr)
    IN  /\ n <= Len(steps)
        /\ \A i \in 1..n : tr[i] = steps[i]
        /\ ~Has(tr, "throw") => n = Len(steps)

\* C14: within one on_resize(w, h) the size is stored first, then the user
\* resize function is invoked with (w, h), then on cocoa only the surface and
\* context are rebuilt, then on cocoa only the draw runs, with the context
\* built in this very call; a throw can only cut the sequence short.
C14_ResizeOrder ==
    lastCb[1] = "on_resize" =>
        /\ IsPrefixOrThrow(trace, ResizeSteps(lastCb[2], lastCb[3]))
        /\ width = lastCb[2] /\ height = lastCb[3]
        /\ \A i \in 1..Len(trace) :
              trace[i][1] = "drawFunction" =>
                 /\ i = 6
                 /\ trace[i][3] # NULL
                 /\ trace[i][3][1].surface = trace[4][2]

C14_Witness ==
    /\ lastCb[1] = "on_resize"
    /\ system = "cocoa"
    /\ Len(trace) = 7
    /\ trace[1] = <<"setSize", lastCb[2], lastCb[3]>>
    /\ trace[6][1] = "drawFunction"
    /\ trace[7][1] = "present"
    /\ setupArgs[3] # lastCb[2]

\* C15: the current dimensions change only within on_resize, which sets them
\* to its arguments; the constructor sets them to the configured size; every
\* other step, on_setup with its width and height arguments and on_draw
\* included, leaves them as they are.
C15_DimsChangeOnlyInResize ==
    [][IF resizeCalls' = resizeCalls + 1
       THEN <<width', height'>> = <<lastCb'[2], lastCb'[3]>>
       ELSE IF phase = "init"
       THEN <<width', height'>> = <<CtorWidth', CtorHeight'>>
       ELSE UNCHANGED <<width, height>>]_vars

C15_Witness ==
    /\ spawnNo = 2
    /\ lastCb[1] = "on_setup"
    /\ lastResize # NULL
    /\ <<width, height>> = lastResize
    /\ <<lastCb[4], lastCb[5]>> # lastResize
    /\ <<width, height>> # <<CtorWidth, CtorHeight>>

\* C16: the device is acquired once per spawn(), before the native call: as
\* long as the native loop runs it is the device of this spawn(), never null
\* and never another one, and every invocation of the user setup and draw
\* functions and every configuration of a context is given that device.
C16_OneDevicePerSpawn ==
    /\ nativeArgs # NULL => device = Some(spawnNo)
    /\ phase \in {"running", "crashed"} => device = Some(spawnNo)
    /\ \A i \in 1..Len(trace) :
          /\ trace[i][1] \in {"setupFunction", "drawFunction"} =>
                trace[i][2] = device /\ device # NULL
          /\ trace[i][1] = "configure" =>
                trace[i][3].device = device /\ device # NULL
    /\ (context # NULL /\ Get(context).cfg # NULL) =>
          Get(Get(context).cfg).device = device

C16_Witness ==
    /\ spawnNo = 2
    /\ nativeCalls = 2
    /\ lastCb = <<"on_draw">>
    /\ Has(trace, "drawFunction")
    /\ device = Some(2)
    /\ Get(Get(context).cfg).device = Some(2)

\* C17: whatever the order of the callbacks, every construction of a surface
\* uses a window and display handle pair that an on_setup has delivered;
\* none is built from the initial null handles.
C17_Claim ==
    \A i \in 1..Len(trace) :
        trace[i][1] = "new" =>
            /\ setupCalls >= 1
            /\ trace[i][3] # NULL /\ trace[i][4] # NULL
            /\ <<trace[i][3], trace[i][4]>> \in HandlePairs

C19_Title ==
    IF opts.windowTitle \in {UNDEF, Str(<<>>)} THEN DefaultTitle
    ELSE opts.windowTitle[2]
C19_Icon ==
    IF opts.windowIconPath \in {UNDEF, Str(<<>>)} THEN NULL
    ELSE Some(asCString(opts.windowIconPath[2]))

\* C19: options with a falsy value count as omitted, and every spawn() passes
\* the width, height and title given (or their defaults) and a null icon
\* buffer for an empty or omitted icon path.
C19_Claim ==
    nativeArgs # NULL =>
        /\ Get(nativeArgs).width =
              (IF opts.width \in {UNDEF, Num(0)} THEN 512 ELSE opts.width[2])
        /\ Get(nativeArgs).height =
              (IF opts.height \in {UNDEF, Num(0)} THEN 512 ELSE opts.height[2])
        /\ Get(nativeArgs).title = asCString(C19_Title)
        /\ Get(nativeArgs).icon = C19_Icon

\* C19 (amended): the title and the icon buffer are those of the options for
\* every spawn(); the width and height are for a spawn() that no on_resize
\* precedes, and those of the last on_resize after that.
C19_FalsyOptionsAreOmitted ==
    /\ phase # "init" => windowTitle = C19_Title
    /\ nativeArgs # NULL =>
          /\ Get(nativeArgs).title = asCString(C19_Title)
          /\ Get(nativeArgs).icon = C19_Icon
          /\ resizeCalls = 0 =>
                <<Get(nativeArgs).width, Get(nativeArgs).height>> =
                   (IF lastResize # NULL THEN lastResize
                    ELSE <<IF opts.width \in {UNDEF, Num(0)} THEN 512
                           ELSE opts.width[2],
                           IF opts.height \in {UNDEF, Num(0)} THEN 512
                           ELSE opts.height[2]>>)

C19_Witness ==
    /\ opts.width = Num(0) /\ opts.height = Num(600)
    /\ opts.windowTitle = Str(<<>>)
    /\ opts.windowIconPath = Str(<<>>)
    /\ nativeArgs # NULL
    /\ Get(nativeArgs).width = 512 /\ Get(nativeArgs).height = 600
    /\ Get(nativeArgs).title = asCString(DefaultTitle)
    /\ Get(nativeArgs).icon = NULL

====
